---- MODULE Spec2Model ----
(***************************************************************************)
(* Model of headless_scraper.py: the sample verifier (test_solution), the  *)
(* page parsers (get_problem_samples, get_solution_code,                   *)
(* fetch_submission_code), the interactive loop (main), the content        *)
(* decoder (get_decoded_html) and normalize_output.                        *)
(*                                                                         *)
(* Texts are sequences of one-character strings.  Python's None is the     *)
(* record field none = TRUE of a result record.                            *)
(***************************************************************************)
EXTENDS Integers, Sequences, FiniteSets, TLC

\* ------------------------------------------------------------------ bounds
MaxSamples == 2
MaxBlocks == 4
MaxRows == 3

\* ------------------------------------------------------- text primitives
\* Characters str.strip() removes and the ones str.splitlines() breaks on.
Whitespace == {" ", "\n", "\r"}
LineBreaks == {"\n", "\r"}

RECURSIVE LStrip(_)
LStrip(s) ==
    IF s = << >> THEN << >>
    ELSE IF Head(s) \in Whitespace THEN LStrip(Tail(s)) ELSE s

RECURSIVE RStrip(_)
RStrip(s) ==
    IF s = << >> THEN << >>
    ELSE IF s[Len(s)] \in Whitespace THEN RStrip(SubSeq(s, 1, Len(s) - 1)) ELSE s

Strip(s) == RStrip(LStrip(s))

\* str.splitlines(): a line break ("\r\n" counts as one) terminates a line;
\* there is no empty last line.
RECURSIVE SplitLinesFrom(_, _)
SplitLinesFrom(s, cur) ==
    IF s = << >> THEN (IF cur = << >> THEN << >> ELSE <<cur>>)
    ELSE IF Head(s) = "\r" /\ Len(s) > 1 /\ s[2] = "\n"
         THEN <<cur>> \o SplitLinesFrom(Tail(Tail(s)), << >>)
    ELSE IF Head(s) \in LineBreaks THEN <<cur>> \o SplitLinesFrom(Tail(s), << >>)
    ELSE SplitLinesFrom(Tail(s), Append(cur, Head(s)))

SplitLines(s) == SplitLinesFrom(s, << >>)

RECURSIVE StripEach(_)
StripEach(lines) ==
    IF lines = << >> THEN << >> ELSE <<Strip(Head(lines))>> \o StripEach(Tail(lines))

\* filter(None, lines)
RECURSIVE FilterNone(_)
FilterNone(lines) ==
    IF lines = << >> THEN << >>
    ELSE IF Head(lines) = << >> THEN FilterNone(Tail(lines))
    ELSE <<Head(lines)>> \o FilterNone(Tail(lines))

\* "\n".join(lines)
RECURSIVE JoinLines(_)
JoinLines(lines) ==
    IF lines = << >> THEN << >>
    ELSE IF Len(lines) = 1 THEN Head(lines)
    ELSE Head(lines) \o <<"\n">> \o JoinLines(Tail(lines))

\* Faulty variant of normalize_output: empty lines are kept.
normalize_output_KeepBlank(output) == JoinLines(StripEach(SplitLines(Strip(output))))

normalize_output(output) == JoinLines(FilterNone(StripEach(SplitLines(Strip(output)))))

\* ------------------------------------------------------- verifier inputs
EmptyText == << >>
Codes == {EmptyText, <<"a">>}
SampleInputs == {<<"a">>}
SampleOutputs == {<<"a">>, <<"a", "\n">>, <<"a", "a">>}
Stdouts == {<<"a">>, <<" ", "a", "\r", "\n">>, <<"a", "\n", "a">>, EmptyText}
SampleCases == SampleInputs \X SampleOutputs

RECURSIVE SeqsUpTo(_, _)
SeqsUpTo(S, n) ==
    IF n = 0 THEN {<< >>}
    ELSE LET shorter == SeqsUpTo(S, n - 1)
         IN  shorter \cup {Append(q, x) : q \in {r \in shorter : Len(r) = n - 1}, x \in S}

SampleLists(maxSamples) == SeqsUpTo(SampleCases, maxSamples)

\* ----------------------------------------------------------- decoded pages
\* A decoded page is described by what the parsers look for in it: the two
\* challenge fingerprints, the input/output blocks in document order (the
\* first div.sample-test, when there is one, holds the first `container`
\* blocks), the rows of table.status-frame-datatable, and the two <pre>
\* elements that can hold a submission's source.
NoContainer == [present |-> FALSE, size |-> 0]
Container(n) == [present |-> TRUE, size |-> n]

\* Children of a <pre>: text strings, <div> lines, <br> and other tags.
PreOne == << [kind |-> "str", text |-> <<"a">>] >>
PreMixed == << [kind |-> "div", text |-> <<" ", "b">>],
               [kind |-> "br", text |-> EmptyText],
               [kind |-> "str", text |-> <<"a", "\r", "\n">>] >>
NoPre == [present |-> FALSE, nodes |-> << >>]
BlockPres == {NoPre, [present |-> TRUE, nodes |-> PreOne],
              [present |-> TRUE, nodes |-> PreMixed]}
Blocks == [cls : {"input", "output"}, pre : BlockPres]

\* Cell and attribute texts of a status row.
Digits == {"1", "2"}
IdTexts == {EmptyText, <<"1", "2">>, <<"1", "a">>}
VerdictTexts == {<<"Accepted">>, <<"ACCEPTED">>, <<"Wrong", "answer">>, EmptyText}
LangTexts == {<<"Python", "3">>, <<"PyPy", "3">>, <<"GNU", "C++">>}

\* str.lower() on the words of a cell text.
LowerWord(w) ==
    CASE w \in {"Accepted", "ACCEPTED"} -> "accepted"
      [] w = "Python" -> "python"
      [] w = "PyPy" -> "pypy"
      [] w = "Wrong" -> "wrong"
      [] w = "GNU" -> "gnu"
      [] w = "C++" -> "c++"
      [] OTHER -> w

ContainsWord(text, word) == \E k \in 1..Len(text) : LowerWord(text[k]) = word

GoodRow == [hasAttr |-> TRUE, attr |-> <<"1", "2">>, ncells |-> 8,
            link |-> [present |-> TRUE, text |-> <<"2", "1">>],
            span |-> TRUE, vtext |-> <<"Accepted">>, lang |-> <<"Python", "3">>]

\* The row shapes the scan distinguishes: each differs from GoodRow in the
\* one or two fields that send it down another branch.
Rows ==
    {GoodRow,
     [GoodRow EXCEPT !.ncells = 7],
     [GoodRow EXCEPT !.hasAttr = FALSE, !.attr = EmptyText],
     [GoodRow EXCEPT !.attr = EmptyText],
     [GoodRow EXCEPT !.attr = EmptyText, !.link = [present |-> FALSE, text |-> EmptyText]],
     [GoodRow EXCEPT !.attr = EmptyText, !.link = [present |-> TRUE, text |-> <<"1", "a">>]],
     [GoodRow EXCEPT !.attr = <<"1", "a">>],
     [GoodRow EXCEPT !.span = FALSE, !.vtext = <<"ACCEPTED">>],
     [GoodRow EXCEPT !.span = FALSE, !.vtext = <<"Wrong", "answer">>],
     [GoodRow EXCEPT !.vtext = EmptyText],
     [GoodRow EXCEPT !.lang = <<"GNU", "C++">>],
     [GoodRow EXCEPT !.lang = <<"PyPy", "3">>]}

\* Text of a source <pre>; "U" and "u" stand for the phrase "Source code is
\* unavailable" as served and in lower case.
SourceTexts == {<<"a">>, <<" ", "a", "\r", "\n">>, <<" ">>, <<"U">>, <<"u">>, EmptyText}
SourcePres == {[present |-> FALSE, text |-> EmptyText]}
              \cup [present : {TRUE}, text : SourceTexts]
NoSourcePre == [present |-> FALSE, text |-> EmptyText]

\* The length a <pre> has to exceed for the browser-driven retriever of
\* test2_center.py to take it as source code.
MinPreLen == 100

\* A <pre> that has neither the source id nor the prettyprint class: absent,
\* short, exactly at the length threshold, or one character above it.
TextOfLen(n) == [k \in 1..n |-> "a"]
OtherPres == {NoSourcePre}
             \cup [present : {TRUE},
                   text : {TextOfLen(1), TextOfLen(MinPreLen), TextOfLen(MinPreLen + 1)}]

EmptyPage == [title |-> FALSE, phrase |-> FALSE, container |-> NoContainer,
              blocks |-> << >>, rows |-> << >>,
              sourcePre |-> NoSourcePre, prettyPre |-> NoSourcePre,
              otherPre |-> NoSourcePre]

Fingerprints == BOOLEAN \X BOOLEAN

\* A problem page, a status page and a submission page.
SamplePage(f, c, b) ==
    [EmptyPage EXCEPT !.title = f[1], !.phrase = f[2], !.container = c, !.blocks = b]
StatusPage(f, r) == [EmptyPage EXCEPT !.title = f[1], !.phrase = f[2], !.rows = r]
SubmissionPage(f, a, b, o) ==
    [EmptyPage EXCEPT !.title = f[1], !.phrase = f[2], !.sourcePre = a, !.prettyPre = b,
                      !.otherPre = o]
Containers(b) == {NoContainer} \cup {Container(n) : n \in 0..Len(b)}

\* What session.get + raise_for_status + get_decoded_html hand to a parser.
ResponseKinds == {"html", "undecodable", "cloudflare", "network", "error"}
Failure(k) == [kind |-> k, html |-> EmptyPage]
Failures == {Failure(k) : k \in ResponseKinds \ {"html"}}
Html(page) == [kind |-> "html", html |-> page]

\* ------------------------------------------------------ parsing operators
None == [none |-> TRUE, items |-> << >>]
Some(v) == [none |-> FALSE, items |-> v]

\* The check applied to the decoded text before BeautifulSoup is built.
IsInterstitial(html) == html.title \/ html.phrase

\* .replace("\r\n", "\n").replace("\r", "\n")
RECURSIVE ReplaceCR(_)
ReplaceCR(s) ==
    IF s = << >> THEN << >>
    ELSE IF Head(s) = "\r" /\ Len(s) > 1 /\ s[2] = "\n"
         THEN <<"\n">> \o ReplaceCR(Tail(Tail(s)))
    ELSE IF Head(s) = "\r" THEN <<"\n">> \o ReplaceCR(Tail(s))
    ELSE <<Head(s)>> \o ReplaceCR(Tail(s))

\* text_content of an input <pre>: one entry per child.
RECURSIVE InputParts(_)
InputParts(nodes) ==
    IF nodes = << >> THEN << >>
    ELSE (IF Head(nodes).kind = "br" THEN << <<"\n">> >>
          ELSE << Strip(Head(nodes).text) >>) \o InputParts(Tail(nodes))

InputText(pre) == Strip(ReplaceCR(JoinLines(FilterNone(InputParts(pre.nodes)))))

\* pre.get_text(separator="\n", strip=True): the stripped non-empty strings.
RECURSIVE OutputParts(_)
OutputParts(nodes) ==
    IF nodes = << >> THEN << >>
    ELSE (IF Head(nodes).kind = "br" THEN << >>
          ELSE << Strip(Head(nodes).text) >>) \o OutputParts(Tail(nodes))

OutputText(pre) == Strip(ReplaceCR(JoinLines(FilterNone(OutputParts(pre.nodes)))))

\* find_all("div", class_=cls) below the first container, or in the whole
\* document when there is no container.
RECURSIVE DivsOfClass(_, _)
DivsOfClass(blocks, cls) ==
    IF blocks = << >> THEN << >>
    ELSE (IF Head(blocks).cls = cls THEN <<Head(blocks)>> ELSE << >>)
         \o DivsOfClass(Tail(blocks), cls)

ScopedBlocks(html) ==
    IF ~html.container.present THEN html.blocks
    ELSE SubSeq(html.blocks, 1, html.container.size)

\* The texts of the blocks that have a <pre>, in document order.
RECURSIVE ExtractTexts(_, _)
ExtractTexts(divs, cls) ==
    IF divs = << >> THEN << >>
    ELSE (IF Head(divs).pre.present
          THEN << IF cls = "input" THEN InputText(Head(divs).pre)
                  ELSE OutputText(Head(divs).pre) >>
          ELSE << >>) \o ExtractTexts(Tail(divs), cls)

Min(a, b) == IF a < b THEN a ELSE b

\* list(zip(a, b)) for lists of equal length n
Zip(a, b, n) == [k \in 1..n |-> <<a[k], b[k]>>]

\* Faulty variant of PairSamples: on unequal counts the last min_len entries are kept.
PairSamples_KeepLast(inputs, outputs) ==
    IF inputs = << >> \/ outputs = << >> THEN << >>
    ELSE LET n == Min(Len(inputs), Len(outputs))
         IN  Zip(SubSeq(inputs, Len(inputs) - n + 1, Len(inputs)),
                 SubSeq(outputs, Len(outputs) - n + 1, Len(outputs)), n)

\* The tail of get_problem_samples: the pairing of inputs and outputs.
PairSamples(inputs, outputs) ==
    IF inputs = << >> \/ outputs = << >> THEN << >>
    ELSE IF Len(inputs) # Len(outputs)
         THEN LET min_len == Min(Len(inputs), Len(outputs))
              IN  Zip(SubSeq(inputs, 1, min_len), SubSeq(outputs, 1, min_len), min_len)
    ELSE Zip(inputs, outputs, Len(inputs))

ExtractedInputs(html) == ExtractTexts(DivsOfClass(ScopedBlocks(html), "input"), "input")
ExtractedOutputs(html) == ExtractTexts(DivsOfClass(ScopedBlocks(html), "output"), "output")

\* Faulty variant of ParseSamples: the markup is parsed without the challenge check.
ParseSamples_NoCheck(html) ==
    Some(PairSamples(ExtractedInputs(html), ExtractedOutputs(html)))

\* get_problem_samples on a decoded page.
ParseSamples(html) ==
    IF IsInterstitial(html) THEN Some(<< >>)
    ELSE Some(PairSamples(ExtractedInputs(html), ExtractedOutputs(html)))

\* get_problem_samples on whatever the fetch produced.
get_problem_samples(r) ==
    CASE r.kind = "undecodable" -> None
      [] r.kind = "html" -> ParseSamples(r.html)
      [] r.kind \in {"cloudflare", "network"} -> Some(<< >>)
      [] OTHER -> None

\* code_pre.get_text(separator="\n").strip() and the line-ending replaces.
SourceText(pre) == ReplaceCR(Strip(pre.text))

\* str.lower() on the characters of a source text.
LowerChar(c) == IF c = "U" THEN "u" ELSE c

\* Faulty variant of IsUnavailable: the phrase is looked for without lower().
IsUnavailable_CaseSensitive(text) == \E k \in 1..Len(text) : text[k] = "u"

\* "source code is unavailable" in code.lower()
IsUnavailable(text) == \E k \in 1..Len(text) : LowerChar(text[k]) = "u"

\* The <pre> fetch_submission_code reads: by id first, then by class.
CodePre(html) == IF html.sourcePre.present THEN html.sourcePre ELSE html.prettyPre

ParseSource(html) ==
    IF IsInterstitial(html) THEN None
    ELSE IF ~CodePre(html).present THEN None
    ELSE IF SourceText(CodePre(html)) = EmptyText \/ IsUnavailable(SourceText(CodePre(html)))
         THEN None
    ELSE Some(SourceText(CodePre(html)))

\* fetch_submission_code on whatever the fetch produced.
fetch_submission_code(r) ==
    IF r.kind = "html" THEN ParseSource(r.html) ELSE None

\* `if fetched_code:` -- None and "" are both falsy
Truthy(res) == ~res.none /\ res.items # << >>

\* str.isdigit()
IsDigit(t) == t # EmptyText /\ \A k \in 1..Len(t) : t[k] \in Digits

\* The submission pages the scan of get_solution_code is answered with.
CodePage == [EmptyPage EXCEPT !.sourcePre = [present |-> TRUE, text |-> <<"a">>]]
FetchReplies ==
    {Html(CodePage),
     Html([CodePage EXCEPT !.phrase = TRUE]),
     Html([EmptyPage EXCEPT !.prettyPre = [present |-> TRUE, text |-> <<"U">>]]),
     Failure("network")}

\* soup.select("table.status-frame-datatable tr[data-submission-id]")
RECURSIVE SelectRows(_)
SelectRows(rows) ==
    IF rows = << >> THEN << >>
    ELSE (IF Head(rows).hasAttr THEN <<Head(rows)>> ELSE << >>) \o SelectRows(Tail(rows))

\* The submission id the scan takes from a row; none when the row is skipped.
RowId(row) ==
    IF row.attr # EmptyText THEN Some(row.attr)
    ELSE IF row.link.present /\ IsDigit(Strip(row.link.text)) THEN Some(Strip(row.link.text))
    ELSE None

\* Faulty variant of IsAccepted: any verdict text counts as accepted.
IsAccepted_AnyVerdict(row) == row.span \/ row.vtext # EmptyText

\* is_accepted = verdict_span or "accepted" in verdict_text
IsAccepted(row) == row.span \/ ContainsWord(row.vtext, "accepted")

\* is_python = "python" in lang_text
IsPython(row) == ContainsWord(row.lang, "python")

\* Faulty variant of StatusRows: the table is parsed without the challenge check.
StatusRows_NoCheck(r) ==
    IF r.kind = "html" THEN SelectRows(r.html.rows) ELSE << >>

\* The rows get_solution_code iterates over; none when it returns before the
\* loop (fetch or decode failure, challenge page, no rows).
StatusRows(r) ==
    IF r.kind = "html" /\ ~IsInterstitial(r.html) THEN SelectRows(r.html.rows) ELSE << >>

\* Faulty variant of Qualifies: the language cell is not looked at.
Qualifies_AnyLanguage(row) ==
    /\ row.ncells >= 8
    /\ ~RowId(row).none
    /\ IsAccepted(row)

\* A row for which the scan calls fetch_submission_code.
Qualifies(row) ==
    /\ row.ncells >= 8
    /\ ~RowId(row).none
    /\ IsAccepted(row)
    /\ IsPython(row)

\* Index of the first row at or after `from` that the scan fetches; 0 when
\* the scan runs off the end of the rows.
RECURSIVE NextFetch(_, _)
NextFetch(rows, from) ==
    IF from > Len(rows) THEN 0
    ELSE IF Qualifies(rows[from]) THEN from
    ELSE NextFetch(rows, from + 1)

\* ------------------------------------------------------ get_decoded_html
\* Length of the payload of a response body.
MaxBytes == 2

\* Bytes of a page: an ASCII letter and 0xE9, which is e-acute in Latin-1 and
\* not valid UTF-8 on its own.
ByteVals == {"a", "xE9"}
Payloads == SeqsUpTo(ByteVals, MaxBytes)

\* response.content: the page bytes as they are, or a Brotli or gzip stream
\* of them, intact or damaged.
Contents ==
    [format : {"plain"}, intact : {TRUE}, data : Payloads]
    \cup [format : {"br", "gzip"}, intact : BOOLEAN, data : Payloads]

\* Values of the Content-Encoding header, character by character; the empty
\* one is the default of headers.get when the header is absent.
HeaderTexts ==
    {<< >>,
     <<"b", "r">>,
     <<"B", "R">>,
     <<"g", "z", "i", "p">>,
     <<"G", "Z", "i", "p">>,
     <<"x", "-", "g", "z", "i", "p">>,
     <<"g", "z", "i", "p", ",", " ", "b", "r">>,
     <<"G", "Z", "I", "P", ",", " ", "B", "R">>,
     <<"d", "e", "f", "l", "a", "t", "e">>,
     <<"i", "d", "e", "n", "t", "i", "t", "y">>}

\* response.apparent_encoding: nothing detected, a codec Python knows, or a
\* name it does not know.
ApparentEncodings == {"None", "utf-8", "ISO-8859-1", "unknown-codec"}

Responses == [encoding : HeaderTexts, content : Contents, apparent : ApparentEncodings]

\* str.lower() on a header value.
LowerHeaderChar(c) ==
    CASE c = "B" -> "b"
      [] c = "R" -> "r"
      [] c = "G" -> "g"
      [] c = "Z" -> "z"
      [] c = "I" -> "i"
      [] c = "P" -> "p"
      [] OTHER -> c
LowerHeader(h) == [k \in 1..Len(h) |-> LowerHeaderChar(h[k])]

\* `needle in text` on strings.
Contains(text, needle) ==
    \E k \in 0..(Len(text) - Len(needle)) :
        \A i \in 1..Len(needle) : text[k + i] = needle[i]

Br == <<"b", "r">>
Gzip == <<"g", "z", "i", "p">>

\* Faulty variant of DecompressPath: gzip is tested before br.
DecompressPath_GzipFirst(encoding_type) ==
    IF Contains(encoding_type, Gzip) THEN "gzip"
    ELSE IF Contains(encoding_type, Br) THEN "brotli"
    ELSE "raw"

\* The if / elif / else on encoding_type.
DecompressPath(encoding_type) ==
    IF Contains(encoding_type, Br) THEN "brotli"
    ELSE IF Contains(encoding_type, Gzip) THEN "gzip"
    ELSE "raw"

\* The bytes of response.content as a plain byte string: a compressed stream
\* starts with its header bytes and holds no byte of the page as it is.
RawView(content) ==
    CASE content.format = "plain" -> content.data
      [] content.format = "gzip" ->
           <<"x1F", "x8B">> \o [k \in 1..Len(content.data) |-> "x8B"]
      [] OTHER -> <<"x8B">> \o [k \in 1..Len(content.data) |-> "x8B"]

Raised(e) == [exc |-> e, out |-> << >>]
Ok(v) == [exc |-> "none", out |-> v]

\* brotli.decompress / gzip.GzipFile(...).read() / the raw bytes.
Decompress(path, content) ==
    CASE path = "brotli" ->
           IF content.format = "br" /\ content.intact
           THEN Ok(content.data) ELSE Raised("brotli.error")
      [] path = "gzip" ->
           IF content.format # "gzip" THEN Raised("BadGzipFile")
           ELSE IF ~content.intact THEN Raised("EOFError")
           ELSE Ok(content.data)
      [] OTHER -> Ok(RawView(content))

\* One byte decoded as UTF-8 with errors="replace", and as Latin-1.
Utf8Char(b) ==
    CASE b = "a" -> "a"
      [] b = "x1F" -> "U+001F"
      [] OTHER -> "U+FFFD"
Latin1Char(b) ==
    CASE b = "a" -> "a"
      [] b = "x1F" -> "U+001F"
      [] b = "xE9" -> "U+00E9"
      [] OTHER -> "U+008B"

\* bytes.decode("utf-8", errors="replace")
DecodeUtf8Replace(bytes) == [k \in 1..Len(bytes) |-> Utf8Char(bytes[k])]

\* bytes.decode(guessed_encoding, errors="replace")
DecodeWith(bytes, enc) ==
    CASE enc = "utf-8" -> Ok(DecodeUtf8Replace(bytes))
      [] enc = "ISO-8859-1" -> Ok([k \in 1..Len(bytes) |-> Latin1Char(bytes[k])])
      [] OTHER -> Raised("LookupError")

\* Where an error that none of the libraries reports on its own (such as
\* MemoryError) strikes, if anywhere.
Faults == {"none", "decompress", "decode", "fallback"}

\* Faulty variant of Caught: the handler for every other Exception is missing.
Caught_NoGeneric(e) == e \in {"brotli.error", "BadGzipFile", "OSError", "EOFError"}

\* The three except clauses after the try: brotli.error, the gzip errors,
\* and Exception.
Caught(e) == e \in {"brotli.error", "BadGzipFile", "OSError", "EOFError",
                    "LookupError", "MemoryError"}

\* get_decoded_html: the path taken, the stage that failed, and what the
\* caller gets.
get_decoded_html(response, fault) ==
    LET path == DecompressPath(LowerHeader(response.encoding))
        unpacked == IF fault = "decompress" THEN Raised("MemoryError")
                    ELSE Decompress(path, response.content)
        guessed_encoding == IF response.apparent = "None" THEN "utf-8"
                            ELSE response.apparent
        decoded == IF unpacked.exc # "none" THEN unpacked
                   ELSE IF fault = "decode" THEN Raised("MemoryError")
                   ELSE DecodeWith(unpacked.out, guessed_encoding)
        failed == IF unpacked.exc # "none" THEN "decompress"
                  ELSE IF decoded.exc # "none" THEN "decode"
                  ELSE "none"
        result ==
            IF decoded.exc = "none" THEN [kind |-> "text", text |-> decoded.out]
            ELSE IF ~Caught(decoded.exc) THEN [kind |-> "raised", text |-> << >>]
            ELSE IF fault = "fallback" THEN [kind |-> "none", text |-> << >>]
            ELSE [kind |-> "text", text |-> DecodeUtf8Replace(RawView(response.content))]
    IN  [path |-> path, failed |-> failed, result |-> result]

\* What one subprocess.run() call can do once the child has been started.
RunOutcomes ==
    [kind : {"exit"}, returncode : {0, 1}, stdout : Stdouts]
    \cup [kind : {"timeout", "exception"}, returncode : {0}, stdout : {EmptyText}]

VARIABLES
    code,           \* test_solution parameter
    samples,        \* test_solution parameter
    python3Present, \* whether the python3 interpreter can be started
    tsPc,           \* position inside test_solution
    idx,            \* 1-based index of the sample the loop is at
    all_passed,     \* local all_passed
    fileExists,     \* temp_solution.py exists on disk
    fileCreated,    \* history: test_solution created temp_solution.py
    loopEntered,    \* history: the sample loop was reached
    removeFailed,   \* history: os.remove raised OSError
    alive,          \* indices of samples whose subprocess is still running
    started,        \* history: indices of samples whose subprocess was started
    runs,           \* history: outcome of each sample, in order
    verdicts,       \* the status printed for each sample, in order
    result,         \* return value of test_solution
    resp,           \* the fetched page the called parser works on
    called,         \* which parser was called on resp
    gpsResult,      \* return value of get_problem_samples
    fscResult,      \* return value of a direct fetch_submission_code call
    scPc,           \* position inside get_solution_code
    scRows,         \* local rows of get_solution_code
    scRow,          \* index of the row whose submission is being fetched
    scFetched,      \* history: rows fetched so far and whether code came back
    scUsed,         \* history: index of the row whose code was returned
    scResult,       \* return value of get_solution_code
    mainPc,         \* position inside main's loop; "off" when main is not running
    report,         \* what main printed for the current problem
    tested,         \* history: main called test_solution for the current problem
    lastBlocked,    \* history: last get_problem_samples result on a challenge page
    lastZero,       \* history: last result on a page without input or output blocks
    exitReason,     \* history: why main's loop ended, "none" while it has not
    steps,          \* history: the steps main has run for the current problem
    dec,            \* one get_decoded_html call: the response and what came of it
    norm            \* one comparison of two outputs through normalize_output

tsVars == <<code, samples, python3Present, tsPc, idx, all_passed, fileExists,
            fileCreated, loopEntered, removeFailed, alive, started, runs,
            verdicts, result>>

scVars == <<scPc, scRows, scRow, scFetched, scUsed, scResult>>

parseVars == <<resp, called, gpsResult, fscResult, scVars>>

mainVars == <<mainPc, report, tested, lastBlocked, lastZero, exitReason, steps>>

pureVars == <<dec, norm>>

vars == <<tsVars, parseVars, mainVars, pureVars>>

NoResult == "none"

TypeOK ==
    /\ \A k \in 1..Len(samples) : Len(samples[k]) = 2
    /\ python3Present \in BOOLEAN
    /\ tsPc \in {"idle", "entry", "write", "loop", "running", "returned"}
    /\ idx \in 1..(Len(samples) + 1)
    /\ all_passed \in BOOLEAN
    /\ fileExists \in BOOLEAN
    /\ result \in {NoResult, "True", "False"}
    /\ called \in {"none", "get_problem_samples", "get_solution_code",
                   "fetch_submission_code"}
    /\ scPc \in {"idle", "fetching", "returned"}
    /\ scRow \in 0..Len(scRows)
    /\ scUsed \in 0..Len(scRows)
    /\ mainPc \in {"off", "input", "samples", "solution", "searching", "test",
                   "testing", "exited"}
    /\ report \in {"none", "invalid", "error", "critical_samples", "no_solution",
                   "untested", "passed", "failed"}
    /\ tested \in BOOLEAN
    /\ exitReason \in {"none", "quit", "interrupt"}
    /\ Len(steps) <= 3
    /\ dec.pc \in {"off", "called", "returned"}
    /\ norm.pc \in {"off", "called", "returned"}

\* No parser has been called.
ParseIdle ==
    /\ resp = Failure("error")
    /\ called = "none"
    /\ gpsResult = None
    /\ fscResult = None
    /\ scPc = "idle"
    /\ scRows = << >>
    /\ scRow = 0
    /\ scFetched = << >>
    /\ scUsed = 0
    /\ scResult = None

Unseen == [seen |-> FALSE, value |-> None]
Seen(v) == [seen |-> TRUE, value |-> v]

\* main is not running.
MainOff ==
    /\ mainPc = "off"
    /\ report = "none"
    /\ tested = FALSE
    /\ lastBlocked = Unseen
    /\ lastZero = Unseen
    /\ exitReason = "none"
    /\ steps = << >>

\* Neither get_decoded_html nor normalize_output is being exercised.
PureIdle ==
    /\ dec = [pc |-> "off"]
    /\ norm = [pc |-> "off"]

\* test_solution called on its own with any code and samples.
InitDirect ==
    /\ ParseIdle
    /\ MainOff
    /\ PureIdle
    /\ code \in Codes
    /\ samples \in SampleLists(MaxSamples)
    /\ python3Present \in BOOLEAN
    /\ tsPc = "entry"
    /\ idx = 1
    /\ all_passed = TRUE
    /\ fileExists = FALSE
    /\ fileCreated = FALSE
    /\ loopEntered = FALSE
    /\ removeFailed = FALSE
    /\ alive = {}
    /\ started = {}
    /\ runs = << >>
    /\ verdicts = << >>
    /\ result = NoResult

\* ---------------------------------------------------------- test_solution
\* Faulty variant of EntryCheck: the sample guard is tested before the code guard.
EntryCheck_SamplesFirst(c, s) ==
    IF s = << >> THEN "True"
    ELSE IF c = EmptyText THEN "False"
    ELSE "proceed"

\* Faulty variant of EntryCheck: an empty sample list is not answered at the top.
EntryCheck_NoSamplesGuard(c, s) ==
    IF c = EmptyText THEN "False" ELSE "proceed"

\* Which of the two guards at the top of test_solution fires.
EntryCheck(c, s) ==
    IF c = EmptyText THEN "False"
    ELSE IF s = << >> THEN "True"
    ELSE "proceed"

Return(v) ==
    /\ result' = v
    /\ tsPc' = "returned"

TS_Entry ==
    /\ tsPc = "entry"
    /\ IF EntryCheck(code, samples) = "proceed"
       THEN tsPc' = "write" /\ UNCHANGED result
       ELSE Return(EntryCheck(code, samples))
    /\ UNCHANGED <<code, samples, python3Present, idx, all_passed, fileExists,
                   fileCreated, loopEntered, removeFailed, alive, started,
                   runs, verdicts>>
    /\ UNCHANGED <<parseVars, mainVars>>
    /\ UNCHANGED pureVars

\* open(temp_file_path, "w") and f.write(code).  IOError can come from open
\* (no file) or from write (the file is already there).
TS_Write ==
    /\ tsPc = "write"
    /\ \E outcome \in {"ok", "open_failed", "write_failed"} :
         /\ fileExists' = (outcome # "open_failed")
         /\ fileCreated' = (outcome # "open_failed")
         /\ IF outcome = "ok"
            THEN /\ tsPc' = "loop"
                 /\ loopEntered' = TRUE
                 /\ UNCHANGED result
            ELSE /\ Return("False")
                 /\ UNCHANGED loopEntered
    /\ idx' = 1
    /\ all_passed' = TRUE
    /\ UNCHANGED <<code, samples, python3Present, removeFailed, alive, started,
                   runs, verdicts>>
    /\ UNCHANGED <<parseVars, mainVars>>
    /\ UNCHANGED pureVars

\* Faulty variant of Classify: the outputs are compared before the exit code is tested.
Classify_OutputFirst(returncode, actual, expected) ==
    IF normalize_output(actual) = normalize_output(expected) THEN "Passed"
    ELSE IF returncode # 0 THEN "RuntimeError"
    ELSE "WrongAnswer"

\* The verdict printed for a run that completed.
Classify(returncode, actual, expected) ==
    IF returncode # 0 THEN "RuntimeError"
    ELSE IF normalize_output(actual) = normalize_output(expected) THEN "Passed"
    ELSE "WrongAnswer"

\* The verdict of one sample given what its run did.
Verdict(o, expected) ==
    CASE o.kind = "timeout" -> "TimeLimitExceeded"
      [] o.kind = "exception" -> "Error"
      [] OTHER -> Classify(o.returncode, o.stdout, expected)

\* Faulty variant of AllPassedAfter: the last verdict overwrites the accumulated flag.
AllPassedAfter_LastOnly(ap, v) == v = "Passed"

\* all_passed after a sample's verdict.
AllPassedAfter(ap, v) == ap /\ v = "Passed"

\* Faulty variant of AfterSample: a timeout breaks out of the sample loop.
AfterSample_BreakOnTimeout(v) ==
    IF v = "TimeLimitExceeded" THEN Len(samples) + 1 ELSE idx + 1

\* Where the loop goes after a sample's verdict: always to the next sample.
AfterSample(v) == idx + 1

\* Faulty variant of TS_StartRun: a missing interpreter is treated like any
\* other error of one sample and the loop goes on.
TS_StartRun_ContinueOnMissing ==
    /\ tsPc = "loop"
    /\ idx <= Len(samples)
    /\ \/ \* FileNotFoundError: python3 cannot be started
          /\ ~python3Present
          /\ runs' = Append(runs, [kind |-> "exception", returncode |-> 0,
                                    stdout |-> EmptyText, startedChild |-> FALSE])
          /\ verdicts' = Append(verdicts, "Error")
          /\ all_passed' = AllPassedAfter(all_passed, "Error")
          /\ idx' = AfterSample("Error")
          /\ UNCHANGED <<tsPc, result, alive, started>>
       \/ \* input_data.encode raises before a child exists
          /\ python3Present
          /\ runs' = Append(runs, [kind |-> "exception", returncode |-> 0,
                                    stdout |-> EmptyText, startedChild |-> FALSE])
          /\ verdicts' = Append(verdicts, "Error")
          /\ all_passed' = AllPassedAfter(all_passed, "Error")
          /\ idx' = AfterSample("Error")
          /\ UNCHANGED <<tsPc, result, alive, started>>
       \/ \* the child is started
          /\ python3Present
          /\ alive' = alive \cup {idx}
          /\ started' = started \cup {idx}
          /\ tsPc' = "running"
          /\ UNCHANGED <<idx, all_passed, runs, verdicts, result>>
    /\ UNCHANGED <<code, samples, python3Present, fileExists, fileCreated,
                   loopEntered, removeFailed>>
    /\ UNCHANGED <<parseVars, mainVars>>
    /\ UNCHANGED pureVars

\* subprocess.run(...) is entered for samples[idx].
TS_StartRun ==
    /\ tsPc = "loop"
    /\ idx <= Len(samples)
    /\ \/ \* FileNotFoundError: python3 cannot be started
          /\ ~python3Present
          /\ Return("False")
          /\ UNCHANGED <<idx, all_passed, alive, started, runs, verdicts>>
       \/ \* input_data.encode raises before a child exists
          /\ python3Present
          /\ runs' = Append(runs, [kind |-> "exception", returncode |-> 0,
                                    stdout |-> EmptyText, startedChild |-> FALSE])
          /\ verdicts' = Append(verdicts, "Error")
          /\ all_passed' = AllPassedAfter(all_passed, "Error")
          /\ idx' = AfterSample("Error")
          /\ UNCHANGED <<tsPc, result, alive, started>>
       \/ \* the child is started
          /\ python3Present
          /\ alive' = alive \cup {idx}
          /\ started' = started \cup {idx}
          /\ tsPc' = "running"
          /\ UNCHANGED <<idx, all_passed, runs, verdicts, result>>
    /\ UNCHANGED <<code, samples, python3Present, fileExists, fileCreated,
                   loopEntered, removeFailed>>
    /\ UNCHANGED <<parseVars, mainVars>>
    /\ UNCHANGED pureVars

\* subprocess.run returns or raises; on a timeout or any other exception it
\* kills the child and waits for it before raising.
TS_FinishRun(o) ==
    /\ tsPc = "running"
    /\ alive' = alive \ {idx}
    /\ runs' = Append(runs, [kind |-> o.kind, returncode |-> o.returncode,
                              stdout |-> o.stdout, startedChild |-> TRUE])
    /\ LET v == Verdict(o, samples[idx][2])
       IN  /\ verdicts' = Append(verdicts, v)
           /\ all_passed' = AllPassedAfter(all_passed, v)
           /\ idx' = AfterSample(v)
    /\ tsPc' = "loop"
    /\ UNCHANGED <<code, samples, python3Present, fileExists, fileCreated,
                   loopEntered, removeFailed, started, result>>
    /\ UNCHANGED <<parseVars, mainVars>>
    /\ UNCHANGED pureVars

\* os.remove(temp_file_path) after the loop, then return all_passed.
TS_Remove ==
    /\ tsPc = "loop"
    /\ idx > Len(samples)
    /\ \E ok \in BOOLEAN :
         /\ fileExists' = IF ok THEN FALSE ELSE fileExists
         /\ removeFailed' = ~ok
    /\ Return(IF all_passed THEN "True" ELSE "False")
    /\ UNCHANGED <<code, samples, python3Present, idx, all_passed, fileCreated,
                   loopEntered, alive, started, runs, verdicts>>
    /\ UNCHANGED <<parseVars, mainVars>>
    /\ UNCHANGED pureVars

\* ------------------------------------------------------ get_solution_code
\* get_solution_code from its entry up to the first submission fetch, or up
\* to its return when no row qualifies.
SC_Start(r) ==
    /\ scRows' = StatusRows(r)
    /\ scFetched' = << >>
    /\ scUsed' = 0
    /\ scResult' = None
    /\ scRow' = NextFetch(scRows', 1)
    /\ scPc' = IF scRow' = 0 THEN "returned" ELSE "fetching"

\* Faulty variant of SC_Fetch: the scan gives up at the first failed fetch.
SC_Fetch_StopOnFailure(reply) ==
    /\ scPc = "fetching"
    /\ LET fetched_code == fetch_submission_code(reply)
       IN  /\ scFetched' = Append(scFetched, [row |-> scRow,
                                              id |-> RowId(scRows[scRow]).items,
                                              ok |-> Truthy(fetched_code)])
           /\ scResult' = IF Truthy(fetched_code) THEN fetched_code ELSE scResult
           /\ scUsed' = IF Truthy(fetched_code) THEN scRow ELSE scUsed
           /\ scRow' = scRow
           /\ scPc' = "returned"
    /\ UNCHANGED <<scRows, resp, called, gpsResult, fscResult, tsVars, mainVars>>
    /\ UNCHANGED pureVars

\* fetch_submission_code answers for row scRow; truthy code is returned, else
\* the scan goes on to the next qualifying row.
SC_Fetch(reply) ==
    /\ scPc = "fetching"
    /\ LET fetched_code == fetch_submission_code(reply)
       IN  /\ scFetched' = Append(scFetched, [row |-> scRow,
                                              id |-> RowId(scRows[scRow]).items,
                                              ok |-> Truthy(fetched_code)])
           /\ IF Truthy(fetched_code)
              THEN /\ scResult' = fetched_code
                   /\ scUsed' = scRow
                   /\ scRow' = scRow
                   /\ scPc' = "returned"
              ELSE /\ scRow' = NextFetch(scRows, scRow + 1)
                   /\ scPc' = IF scRow' = 0 THEN "returned" ELSE "fetching"
                   /\ UNCHANGED <<scResult, scUsed>>
    /\ UNCHANGED <<scRows, resp, called, gpsResult, fscResult, tsVars, mainVars>>
    /\ UNCHANGED pureVars

\* ------------------------------------------------- parsers called directly
VerifierIdle ==
    /\ code = EmptyText
    /\ samples = << >>
    /\ python3Present = TRUE
    /\ tsPc = "idle"
    /\ idx = 1
    /\ all_passed = TRUE
    /\ fileExists = FALSE
    /\ fileCreated = FALSE
    /\ loopEntered = FALSE
    /\ removeFailed = FALSE
    /\ alive = {}
    /\ started = {}
    /\ runs = << >>
    /\ verdicts = << >>
    /\ result = NoResult

InitParse ==
    /\ VerifierIdle
    /\ MainOff
    /\ PureIdle
    /\ \/ \E f \in Fingerprints, b \in SeqsUpTo(Blocks, MaxBlocks) :
            \E c \in Containers(b) : resp = Html(SamplePage(f, c, b))
       \/ \E f \in Fingerprints, r \in SeqsUpTo(Rows, MaxRows) :
            resp = Html(StatusPage(f, r))
       \/ \E f \in Fingerprints, a \in SourcePres, b \in SourcePres, o \in OtherPres :
            resp = Html(SubmissionPage(f, a, b, o))
       \/ resp \in Failures
    /\ called = "none"
    /\ gpsResult = None
    /\ fscResult = None
    /\ scPc = "idle"
    /\ scRows = << >>
    /\ scRow = 0
    /\ scFetched = << >>
    /\ scUsed = 0
    /\ scResult = None

P_get_problem_samples ==
    /\ called = "none"
    /\ called' = "get_problem_samples"
    /\ gpsResult' = get_problem_samples(resp)
    /\ UNCHANGED <<resp, fscResult, scVars, tsVars, mainVars>>
    /\ UNCHANGED pureVars

P_get_solution_code ==
    /\ called = "none"
    /\ called' = "get_solution_code"
    /\ SC_Start(resp)
    /\ UNCHANGED <<resp, gpsResult, fscResult, tsVars, mainVars>>
    /\ UNCHANGED pureVars

P_fetch_submission_code ==
    /\ called = "none"
    /\ called' = "fetch_submission_code"
    /\ fscResult' = fetch_submission_code(resp)
    /\ UNCHANGED <<resp, gpsResult, scVars, tsVars, mainVars>>
    /\ UNCHANGED pureVars

NextParse ==
    \/ P_get_problem_samples
    \/ P_get_solution_code
    \/ P_fetch_submission_code
    \/ \E reply \in FetchReplies : SC_Fetch(reply)

SpecParse == InitParse /\ [][NextParse]_vars

\* --------------------------------------------------------------------- main
\* The pages main's fetches are answered with.
TwoSamples == << [cls |-> "input", pre |-> [present |-> TRUE, nodes |-> PreOne]],
                 [cls |-> "output", pre |-> [present |-> TRUE, nodes |-> PreOne]],
                 [cls |-> "input", pre |-> [present |-> TRUE, nodes |-> PreMixed]],
                 [cls |-> "output", pre |-> [present |-> TRUE, nodes |-> PreMixed]] >>
MainSampleResponses ==
    {Html(SamplePage(<<FALSE, FALSE>>, Container(4), TwoSamples)),
     Html(SamplePage(<<FALSE, FALSE>>, NoContainer, SubSeq(TwoSamples, 1, 2))),
     Html(SamplePage(<<FALSE, FALSE>>, NoContainer, SubSeq(TwoSamples, 1, 1))),
     Html(SamplePage(<<TRUE, FALSE>>, NoContainer, TwoSamples)),
     Html(SamplePage(<<FALSE, TRUE>>, NoContainer, << >>)),
     Html(EmptyPage)}
    \cup Failures
MainStatusResponses ==
    {Html(StatusPage(<<FALSE, FALSE>>, <<GoodRow>>)),
     Html(StatusPage(<<FALSE, FALSE>>, <<[GoodRow EXCEPT !.lang = <<"GNU", "C++">>], GoodRow, GoodRow>>)),
     Html(StatusPage(<<FALSE, TRUE>>, <<GoodRow>>)),
     Html(EmptyPage),
     Failure("network")}

\* main starts with the session set up and no problem read yet.
InitMain ==
    /\ VerifierIdle
    /\ ParseIdle
    /\ PureIdle
    /\ mainPc = "input"
    /\ report = "none"
    /\ tested = FALSE
    /\ lastBlocked = Unseen
    /\ lastZero = Unseen
    /\ exitReason = "none"
    /\ steps = << >>

\* A page on which neither inputs nor outputs, or only one of them, are found.
ZeroSamples(r) ==
    /\ r.kind = "html"
    /\ ~IsInterstitial(r.html)
    /\ ExtractedInputs(r.html) = << >> \/ ExtractedOutputs(r.html) = << >>

\* What main printed for a problem it gave up on.
FailureReports == {"invalid", "critical_samples", "no_solution", "failed", "error"}

\* Faulty variant of AfterItem: a failed item ends the loop.
AfterItem_StopOnFailure(outcome) ==
    IF outcome \in FailureReports THEN "exited" ELSE "input"

\* Where the loop goes when an item is over: every `continue`, the fall off
\* the end of the body and the `except Exception` handler lead to the next
\* input().
AfterItem(outcome) == "input"

\* input(...) and the validation of the problem id.
M_Input ==
    /\ mainPc = "input"
    /\ \E cmd \in {"quit", "invalid", "valid"} :
         /\ mainPc' = CASE cmd = "quit" -> "exited"
                        [] cmd = "invalid" -> AfterItem("invalid")
                        [] OTHER -> "samples"
         /\ report' = CASE cmd = "quit" -> report
                        [] cmd = "invalid" -> "invalid"
                        [] OTHER -> "none"
         /\ tested' = IF cmd = "valid" THEN FALSE ELSE tested
         /\ exitReason' = IF cmd = "quit" THEN "quit" ELSE exitReason
         /\ steps' = IF cmd = "valid" THEN << >> ELSE steps
    /\ UNCHANGED <<lastBlocked, lastZero, tsVars, parseVars>>
    /\ UNCHANGED pureVars

\* Faulty variant of M_Samples: a None result does not skip the problem.
M_Samples_NoSkip ==
    /\ mainPc = "samples"
    /\ \E r \in MainSampleResponses :
         /\ resp' = r
         /\ gpsResult' = get_problem_samples(r)
         /\ lastBlocked' = IF r.kind = "html" /\ IsInterstitial(r.html)
                           THEN Seen(gpsResult') ELSE lastBlocked
         /\ lastZero' = IF ZeroSamples(r) THEN Seen(gpsResult') ELSE lastZero
    /\ called' = "get_problem_samples"
    /\ mainPc' = "solution"
    /\ UNCHANGED report
    /\ UNCHANGED <<tested, fscResult, scVars, tsVars>>
    /\ steps' = Append(steps, "samples")
    /\ UNCHANGED <<exitReason, pureVars>>

\* samples = get_problem_samples(...); None skips the problem.
M_Samples ==
    /\ mainPc = "samples"
    /\ \E r \in MainSampleResponses :
         /\ resp' = r
         /\ gpsResult' = get_problem_samples(r)
         /\ lastBlocked' = IF r.kind = "html" /\ IsInterstitial(r.html)
                           THEN Seen(gpsResult') ELSE lastBlocked
         /\ lastZero' = IF ZeroSamples(r) THEN Seen(gpsResult') ELSE lastZero
    /\ called' = "get_problem_samples"
    /\ IF gpsResult'.none
       THEN mainPc' = AfterItem("critical_samples") /\ report' = "critical_samples"
       ELSE mainPc' = "solution" /\ UNCHANGED report
    /\ UNCHANGED <<tested, fscResult, scVars, tsVars>>
    /\ steps' = Append(steps, "samples")
    /\ UNCHANGED <<exitReason, pureVars>>

\* code = get_solution_code(...) is entered.
M_Solution ==
    /\ mainPc = "solution"
    /\ \E r \in MainStatusResponses :
         /\ resp' = r
         /\ SC_Start(r)
    /\ called' = "get_solution_code"
    /\ mainPc' = "searching"
    /\ UNCHANGED <<report, tested, lastBlocked, lastZero, gpsResult, fscResult, tsVars>>
    /\ steps' = Append(steps, "search")
    /\ UNCHANGED <<exitReason, pureVars>>

\* get_solution_code has returned: no code skips the problem, no samples
\* prints the code as untested, else test_solution is called.
M_Test ==
    /\ mainPc = "searching"
    /\ scPc = "returned"
    /\ IF ~Truthy(scResult)
       THEN /\ report' = "no_solution"
            /\ mainPc' = AfterItem("no_solution")
            /\ UNCHANGED <<tested, steps, tsVars>>
       ELSE IF gpsResult.items = << >>
       THEN /\ report' = "untested"
            /\ mainPc' = AfterItem("untested")
            /\ UNCHANGED <<tested, steps, tsVars>>
       ELSE /\ mainPc' = "testing"
            /\ tested' = TRUE
            /\ steps' = Append(steps, "verify")
            /\ code' = scResult.items
            /\ samples' = gpsResult.items
            /\ python3Present' \in BOOLEAN
            /\ tsPc' = "entry"
            /\ idx' = 1
            /\ all_passed' = TRUE
            /\ fileCreated' = FALSE
            /\ loopEntered' = FALSE
            /\ removeFailed' = FALSE
            /\ alive' = {}
            /\ started' = {}
            /\ runs' = << >>
            /\ verdicts' = << >>
            /\ result' = NoResult
            /\ UNCHANGED <<report, fileExists>>
    /\ UNCHANGED <<lastBlocked, lastZero, parseVars>>
    /\ UNCHANGED <<exitReason, pureVars>>

\* test_solution has returned: the code is printed only after a pass.  The
\* locals and the history of the finished call are dropped.
M_Report ==
    /\ mainPc = "testing"
    /\ tsPc = "returned"
    /\ report' = IF result = "True" THEN "passed" ELSE "failed"
    /\ mainPc' = AfterItem(report')
    /\ tsPc' = "idle"
    /\ idx' = 1
    /\ all_passed' = TRUE
    /\ fileCreated' = FALSE
    /\ loopEntered' = FALSE
    /\ removeFailed' = FALSE
    /\ alive' = {}
    /\ started' = {}
    /\ runs' = << >>
    /\ verdicts' = << >>
    /\ UNCHANGED <<code, samples, python3Present, fileExists, result>>
    /\ UNCHANGED <<tested, lastBlocked, lastZero, parseVars>>
    /\ UNCHANGED <<exitReason, steps, pureVars>>

\* The locals and the history of a test_solution call that is abandoned.
DropVerifier ==
    /\ tsPc' = "idle"
    /\ idx' = 1
    /\ all_passed' = TRUE
    /\ fileCreated' = FALSE
    /\ loopEntered' = FALSE
    /\ removeFailed' = FALSE
    /\ alive' = {}
    /\ started' = {}
    /\ runs' = << >>
    /\ verdicts' = << >>
    /\ UNCHANGED <<code, samples, python3Present, result>>

\* An exception that is not caught further down reaches `except Exception`:
\* input() raising EOFError, or f.write(code) raising something other than
\* IOError once open() has created the file.
M_Exception ==
    /\ \/ /\ mainPc = "input"
          /\ UNCHANGED tsVars
       \/ /\ mainPc = "testing"
          /\ tsPc = "write"
          /\ fileExists' = TRUE
          /\ DropVerifier
    /\ report' = "error"
    /\ mainPc' = AfterItem("error")
    /\ UNCHANGED <<tested, lastBlocked, lastZero, exitReason, steps, parseVars, pureVars>>

\* Ctrl+C anywhere in the loop body reaches `except KeyboardInterrupt: break`;
\* subprocess.run kills a running child before it lets the exception out.
M_Interrupt ==
    /\ mainPc \in {"input", "samples", "solution", "searching", "testing"}
    /\ mainPc' = "exited"
    /\ exitReason' = "interrupt"
    /\ IF mainPc = "testing"
       THEN DropVerifier /\ UNCHANGED fileExists
       ELSE UNCHANGED tsVars
    /\ UNCHANGED <<report, tested, lastBlocked, lastZero, steps, parseVars, pureVars>>

Init == InitDirect \/ InitMain

Next ==
    \/ M_Input
    \/ M_Samples
    \/ M_Solution
    \/ \E reply \in FetchReplies : SC_Fetch(reply)
    \/ M_Test
    \/ M_Report
    \/ M_Exception
    \/ M_Interrupt
    \/ TS_Entry
    \/ TS_Write
    \/ TS_StartRun
    \/ \E o \in RunOutcomes : TS_FinishRun(o)
    \/ TS_Remove

Spec == Init /\ [][Next]_vars

\* ------------------------------------------ normalize_output called directly
\* Length of the outputs compared.
MaxLen == 3

\* Characters of a program's output: letters, the blank and line breaks.
OutputChars == {"a", "b", " ", "\n", "\r"}

\* s with character c put in after its first p characters.
Insert(s, p, c) == SubSeq(s, 1, p) \o <<c>> \o SubSeq(s, p + 1, Len(s))

\* The places of s at which a line starts or ends.
LineEdges(s) ==
    {p \in 0..Len(s) :
        \/ p = 0
        \/ p = Len(s)
        \/ s[p] \in LineBreaks
        \/ s[p + 1] \in LineBreaks}

\* Outputs that differ from s in one more trailing newline, one more blank
\* line, or one more blank at the start or end of a line.
Variants(s) ==
    {s \o <<"\n">>, s \o <<"\r", "\n">>}
    \cup {Insert(s, p, "\n") : p \in LineEdges(s)}
    \cup {Insert(s, p, " ") : p \in LineEdges(s)}

InitNormalize ==
    /\ VerifierIdle
    /\ ParseIdle
    /\ MainOff
    /\ dec = [pc |-> "off"]
    /\ \E t \in SeqsUpTo(OutputChars, MaxLen) : norm = [pc |-> "called", text |-> t]

\* The expected output norm.text and an actual output that differs from it
\* in layout only go through normalize_output and the comparison of
\* test_solution.
N_Compare ==
    /\ norm.pc = "called"
    /\ \E v \in Variants(norm.text) :
         norm' = [pc |-> "returned",
                  text |-> norm.text,
                  variant |-> v,
                  out |-> normalize_output(norm.text),
                  varOut |-> normalize_output(v),
                  twice |-> normalize_output(normalize_output(norm.text)),
                  verdict |-> Classify(0, v, norm.text)]
    /\ UNCHANGED <<dec, tsVars, parseVars, mainVars>>

NextNormalize == N_Compare

SpecNormalize == InitNormalize /\ [][NextNormalize]_vars

\* ------------------------------------------ get_decoded_html called directly
InitDecode ==
    /\ VerifierIdle
    /\ ParseIdle
    /\ MainOff
    /\ norm = [pc |-> "off"]
    /\ \E r \in Responses : dec = [pc |-> "called", response |-> r]

\* One call of get_decoded_html runs to its return.
DH_Call ==
    /\ dec.pc = "called"
    /\ \E fault \in Faults :
         LET o == get_decoded_html(dec.response, fault)
         IN  dec' = [pc |-> "returned", response |-> dec.response, fault |-> fault,
                     path |-> o.path, failed |-> o.failed, result |-> o.result]
    /\ UNCHANGED <<norm, tsVars, parseVars, mainVars>>

NextDecode == DH_Call

SpecDecode == InitDecode /\ [][NextDecode]_vars

\* ------------------------------------------------------------ properties
Returned == tsPc = "returned"

\* A sample that was run to completion and judged Passed.
RanAndPassed(k) ==
    /\ k \in started
    /\ runs[k].kind = "exit"
    /\ runs[k].returncode = 0
    /\ normalize_output(runs[k].stdout) = normalize_output(samples[k][2])

\* C1: for non-empty code and a non-empty sample list, test_solution returns
\* true exactly when every sample of the list was run and judged Passed.
C1_TrueIffAllPassed ==
    (Returned /\ code # EmptyText /\ samples # << >>) =>
        (result = "True" <=>
            /\ Len(runs) = Len(samples)
            /\ \A k \in 1..Len(samples) : RanAndPassed(k))

C1_Witness ==
    /\ Returned
    /\ result = "True"
    /\ Len(samples) >= 2
    /\ \A k \in 1..Len(samples) : RanAndPassed(k)

\* The verdict the precedence rule gives a run whose child was started.
PrecedenceVerdict(k) ==
    IF runs[k].kind = "timeout" THEN "TimeLimitExceeded"
    ELSE IF runs[k].returncode # 0 THEN "RuntimeError"
    ELSE IF normalize_output(runs[k].stdout) = normalize_output(samples[k][2])
         THEN "Passed"
    ELSE "WrongAnswer"

\* C2: every sample run gets exactly one verdict: TimeLimitExceeded on a
\* timeout, else RuntimeError on a non-zero exit code even when the outputs
\* agree, else Passed on equal normalized outputs, else WrongAnswer.
C2_VerdictPrecedence ==
    /\ Len(verdicts) = Len(runs)
    /\ \A k \in 1..Len(runs) :
         runs[k].kind \in {"exit", "timeout"} => verdicts[k] = PrecedenceVerdict(k)

C2_Witness ==
    \E k \in 1..Len(runs) :
        /\ runs[k].kind = "exit"
        /\ runs[k].returncode # 0
        /\ normalize_output(runs[k].stdout) = normalize_output(samples[k][2])
        /\ verdicts[k] = "RuntimeError"

\* C3: once test_solution has reached the sample loop, the temporary solution
\* file is gone when it returns, on every exit path (removal itself working).
C3_ArtifactRemovedOnReturn ==
    (Returned /\ loopEntered /\ ~removeFailed) => ~fileExists

\* C4: a timed-out sample is judged TimeLimitExceeded, no subprocess of an
\* earlier sample is alive when a later one starts, and the loop goes on to
\* every later sample.
C4_TimeoutContinues ==
    /\ \A k \in 1..Len(runs) :
         runs[k].kind = "timeout" => verdicts[k] = "TimeLimitExceeded"
    /\ alive = (IF tsPc = "running" THEN {idx} ELSE {})
    /\ (\E k \in 1..Len(runs) : runs[k].kind = "timeout") =>
         /\ tsPc \in {"loop", "running", "returned"}
         /\ tsPc \in {"loop", "running"} => idx = Len(runs) + 1
         /\ Returned => Len(runs) = Len(samples)

C4_Witness ==
    /\ Returned
    /\ Len(runs) >= 2
    /\ runs[1].kind = "timeout"
    /\ verdicts[1] = "TimeLimitExceeded"
    /\ 2 \in started
    /\ alive = {}

\* C5: with non-empty code and no samples test_solution returns true without
\* writing the file or starting a subprocess, and main prints a problem whose
\* code was found but never tested as untested, never as passed.
C5_VacuousPassUntested ==
    /\ (Returned /\ code # EmptyText /\ samples = << >>) =>
         /\ result = "True"
         /\ ~fileCreated
         /\ started = {}
         /\ runs = << >>
    /\ report = "untested" => (~tested /\ Truthy(scResult))
    /\ report = "passed" => (tested /\ result = "True")
    /\ report \in {"untested", "passed", "failed"} =>
         (report = "untested" <=> gpsResult.items = << >>)

C5_Witness ==
    /\ Returned
    /\ code # EmptyText
    /\ samples = << >>
    /\ result = "True"
    /\ ~fileExists

\* C7: the value get_problem_samples returns for a challenge page differs
\* from the one it returns for a page without input or output blocks.
C7_BlockedDistinctFromEmpty ==
    (lastBlocked.seen /\ lastZero.seen) => lastBlocked.value # lastZero.value

\* C6: with empty code test_solution returns a negative result, writes no
\* file and runs no sample, whatever the sample list is.
C6_EmptyCodeFailsFast ==
    (Returned /\ code = EmptyText) =>
        /\ result = "False"
        /\ ~fileCreated
        /\ started = {}
        /\ runs = << >>

C6_Witness ==
    /\ Returned
    /\ code = EmptyText
    /\ samples = << >>
    /\ result = "False"

\* The page the called parser was given, when the fetch produced one.
GotHtml == resp.kind = "html"
Challenge == GotHtml /\ (resp.html.title \/ resp.html.phrase)

\* C8: on a text with either challenge fingerprint the sample extractor, the
\* submission selector and the source retriever return their blocked result
\* and extract nothing, whatever markup the text also holds.
C8_InterstitialFirst ==
    Challenge =>
        /\ called = "get_problem_samples" => gpsResult = Some(<< >>)
        /\ called = "get_solution_code" =>
             /\ scPc = "returned"
             /\ scResult = None
             /\ scRows = << >>
             /\ scFetched = << >>
        /\ called = "fetch_submission_code" => fscResult = None

C8_Witness ==
    /\ called = "get_solution_code"
    /\ GotHtml
    /\ resp.html.phrase
    /\ ~resp.html.title
    /\ Len(resp.html.rows) >= 2
    /\ resp.html.rows[1] = GoodRow
    /\ scPc = "returned"
    /\ scResult = None
    /\ scFetched = << >>

\* C9: the sample extractor pairs the k-th extracted input with the k-th
\* extracted output and returns exactly min(N, M) pairs; none when N or M is 0.
C9_PairsInOrder ==
    (called = "get_problem_samples" /\ GotHtml /\ ~Challenge) =>
        LET ins == ExtractedInputs(resp.html)
            outs == ExtractedOutputs(resp.html)
        IN  /\ ~gpsResult.none
            /\ Len(gpsResult.items) = Min(Len(ins), Len(outs))
            /\ \A k \in 1..Len(gpsResult.items) :
                 gpsResult.items[k] = <<ins[k], outs[k]>>

C9_Witness ==
    /\ called = "get_problem_samples"
    /\ GotHtml
    /\ ~Challenge
    /\ Len(ExtractedInputs(resp.html)) = 2
    /\ Len(ExtractedOutputs(resp.html)) = 1
    /\ ExtractedInputs(resp.html)[1] # ExtractedInputs(resp.html)[2]
    /\ gpsResult.items = << <<ExtractedInputs(resp.html)[1], ExtractedOutputs(resp.html)[1]>> >>

\* A row that is accepted and in the target language (and has enough cells).
AcceptedPython(row) ==
    /\ row.ncells >= 8
    /\ row.span \/ ContainsWord(row.vtext, "accepted")
    /\ ContainsWord(row.lang, "python")

HasId(row) ==
    \/ row.attr # EmptyText
    \/ row.link.present /\ IsDigit(Strip(row.link.text))

FetchFailed(j) == \E k \in 1..Len(scFetched) : scFetched[k].row = j /\ ~scFetched[k].ok
WasFetched(j) == \E k \in 1..Len(scFetched) : scFetched[k].row = j

\* C10 as stated: the submission used is the first row that is accepted and
\* in the target language (rows without any identifier set aside).
C10_FirstAcceptedPythonRow ==
    (scPc = "returned" /\ scUsed # 0) =>
        /\ AcceptedPython(scRows[scUsed])
        /\ \A j \in 1..(scUsed - 1) : ~(AcceptedPython(scRows[j]) /\ HasId(scRows[j]))

\* C10 (amended): the submission used is the first row that has enough cells,
\* yields an identifier, is accepted and in the target language, and whose
\* source fetch returned code; earlier rows either fail one of the row tests
\* and are not fetched, or were fetched without getting code.
C10_FirstFetchedQualifyingRow ==
    /\ \A k \in 1..Len(scFetched) :
         /\ AcceptedPython(scRows[scFetched[k].row])
         /\ HasId(scRows[scFetched[k].row])
         /\ k > 1 => scFetched[k - 1].row < scFetched[k].row
    /\ (scPc = "returned" /\ scUsed # 0) =>
         /\ scFetched[Len(scFetched)].row = scUsed
         /\ scFetched[Len(scFetched)].ok
         /\ \A j \in 1..(scUsed - 1) :
              IF AcceptedPython(scRows[j]) /\ HasId(scRows[j])
              THEN FetchFailed(j) ELSE ~WasFetched(j)

C10_Witness ==
    /\ scPc = "returned"
    /\ scUsed = 3
    /\ ~AcceptedPython(scRows[1])
    /\ AcceptedPython(scRows[2]) /\ HasId(scRows[2]) /\ FetchFailed(2)
    /\ ~WasFetched(1)

\* A row the selector matches that is accepted, in the target language and
\* yields an identifier.
Candidate(row) == row.hasAttr /\ AcceptedPython(row) /\ HasId(row)

\* C11: get_solution_code returns None, fetching nothing, both when the
\* status table has no data rows and when it has rows of which none is
\* accepted in the target language.
C11_NoneWithoutCandidate ==
    (/\ called = "get_solution_code"
     /\ GotHtml
     /\ ~Challenge
     /\ \A k \in 1..Len(resp.html.rows) :
          ~(resp.html.rows[k].hasAttr /\ AcceptedPython(resp.html.rows[k]))) =>
        /\ scPc = "returned"
        /\ scResult = None
        /\ scUsed = 0
        /\ scFetched = << >>

C11_Witness ==
    /\ called = "get_solution_code"
    /\ GotHtml
    /\ ~Challenge
    /\ Len(scRows) >= 2
    /\ \A k \in 1..Len(scRows) : scRows[k].ncells >= 8 /\ ~AcceptedPython(scRows[k])
    /\ scPc = "returned"
    /\ scResult = None
    /\ scFetched = << >>

\* The identifier C12 describes: the row attribute when it is numeric, else
\* the numeric text of the link in the first cell.
NumericId(row) ==
    IF IsDigit(row.attr) THEN row.attr ELSE Strip(row.link.text)

\* C12: every submission the scan fetches is requested under a numeric
\* identifier: the row attribute when that is numeric, else the numeric text
\* of the first cell; a row that yields neither is never fetched.
C12_NumericIdOrSkip ==
    \A k \in 1..Len(scFetched) :
        /\ IsDigit(scFetched[k].id)
        /\ scFetched[k].id = NumericId(scRows[scFetched[k].row])

\* The first candidate row after row `from`, 0 when there is none.
NextCandidate(from) ==
    IF \E j \in (from + 1)..Len(scRows) : Candidate(scRows[j])
    THEN CHOOSE j \in (from + 1)..Len(scRows) :
            /\ Candidate(scRows[j])
            /\ \A i \in (from + 1)..(j - 1) : ~Candidate(scRows[i])
    ELSE 0

\* C20: after a failed source fetch the scan goes on to the next candidate
\* row; the code returned is that of the first candidate whose fetch works,
\* and None is returned only when the fetch of every candidate row failed.
C20_ScanContinuesAfterFailedFetch ==
    /\ \A k \in 1..Len(scFetched) :
         /\ scFetched[k].row = NextCandidate(IF k = 1 THEN 0 ELSE scFetched[k - 1].row)
         /\ k < Len(scFetched) => ~scFetched[k].ok
    /\ scPc = "fetching" =>
         /\ scRow # 0
         /\ scRow = NextCandidate(IF scFetched = << >> THEN 0
                                  ELSE scFetched[Len(scFetched)].row)
    /\ (scPc = "returned" /\ scResult.none) =>
         \A j \in 1..Len(scRows) : Candidate(scRows[j]) => FetchFailed(j)
    /\ (scPc = "returned" /\ ~scResult.none) =>
         /\ scFetched[Len(scFetched)].ok
         /\ scUsed = scFetched[Len(scFetched)].row
         /\ scResult.items # EmptyText

C20_Witness ==
    /\ scPc = "returned"
    /\ Len(scFetched) = 2
    /\ ~scFetched[1].ok
    /\ scFetched[2].ok
    /\ scUsed = scFetched[2].row
    /\ Candidate(scRows[1])
    /\ ~scResult.none

\* A text that is empty or holds the unavailable phrase in either case.
NoCode(text) == text = EmptyText \/ \E k \in 1..Len(text) : text[k] \in {"U", "u"}

\* C13 as stated: on a page without the source id element and without a
\* source-class element, the retriever returns the text of the <pre> that is
\* longer than the length threshold, and None when the <pre> is at or below it.
C13_LongPreFallback ==
    (/\ called = "fetch_submission_code"
     /\ GotHtml
     /\ ~Challenge
     /\ ~resp.html.sourcePre.present
     /\ ~resp.html.prettyPre.present) =>
        fscResult = (IF /\ resp.html.otherPre.present
                        /\ Len(resp.html.otherPre.text) > MinPreLen
                     THEN Some(resp.html.otherPre.text)
                     ELSE None)

\* C14: fetch_submission_code never returns an empty text or one with the
\* unavailable phrase in any letter case: a page whose source block holds
\* such a text gives None, and so does every scan that only gets such pages.
C14_NoEmptyOrSentinelCode ==
    /\ ~fscResult.none => ~NoCode(fscResult.items)
    /\ ~scResult.none => ~NoCode(scResult.items)
    /\ (/\ called = "fetch_submission_code"
        /\ GotHtml
        /\ resp.html.sourcePre.present
        /\ \E k \in 1..Len(resp.html.sourcePre.text) :
             resp.html.sourcePre.text[k] \in {"U", "u"}) => fscResult = None

C14_Witness ==
    /\ called = "fetch_submission_code"
    /\ GotHtml
    /\ ~Challenge
    /\ resp.html.sourcePre = [present |-> TRUE, text |-> <<"U">>]
    /\ fscResult = None

\* C17: main's loop ends only on the quit command or on a keyboard
\* interrupt; after an invalid id, a failed sample fetch, a missing solution,
\* a failed verification or an unexpected exception it is back at input().
C17_OnlyQuitOrInterruptEndsLoop ==
    /\ mainPc = "exited" <=> exitReason \in {"quit", "interrupt"}
    /\ (mainPc # "off" /\ report \in FailureReports) =>
         mainPc = "input" \/ exitReason \in {"quit", "interrupt"}

C17_Witness ==
    /\ mainPc = "input"
    /\ report = "error"
    /\ exitReason = "none"
    /\ fileExists

\* C18: when python3 cannot be started test_solution returns False at the
\* first sample without starting or judging any sample, and main reports the
\* problem as failed and is back at input().
C18_MissingInterpreterFailsCall ==
    /\ (Returned /\ loopEntered /\ ~python3Present) =>
         /\ result = "False"
         /\ idx = 1
         /\ started = {}
         /\ runs = << >>
         /\ verdicts = << >>
    /\ (mainPc = "testing" /\ tsPc \in {"loop", "returned"} /\ ~python3Present) =>
         /\ idx = 1
         /\ runs = << >>
    /\ (mainPc # "off" /\ tested /\ ~python3Present /\ report \in {"passed", "failed"}) =>
         /\ report = "failed"
         /\ mainPc = "input" \/ exitReason \in {"quit", "interrupt"}

C18_Witness ==
    /\ Returned
    /\ loopEntered
    /\ ~python3Present
    /\ Len(samples) >= 2
    /\ result = "False"
    /\ runs = << >>

\* C15: get_decoded_html never raises; when decompression or decoding fails
\* it returns the original bytes decoded as UTF-8 with replacement, it
\* returns None only when that fallback fails too, and what it returns is
\* always a text or None.
C15_FallbackToRawUtf8 ==
    dec.pc = "returned" =>
        /\ dec.result.kind \in {"text", "none"}
        /\ dec.failed # "none" =>
             dec.result = (IF dec.fault = "fallback"
                           THEN [kind |-> "none", text |-> << >>]
                           ELSE [kind |-> "text",
                                 text |-> DecodeUtf8Replace(RawView(dec.response.content))])
        /\ dec.result.kind = "none" => (dec.failed # "none" /\ dec.fault = "fallback")

C15_Witness ==
    /\ dec.pc = "returned"
    /\ dec.failed = "decode"
    /\ dec.fault = "none"
    /\ dec.path = "gzip"
    /\ dec.response.content.data = <<"a", "xE9">>
    /\ dec.result = [kind |-> "text", text |-> <<"U+001F", "U+FFFD", "U+FFFD", "U+FFFD">>]

\* C16: the decompression path is brotli when the lower-cased header value
\* contains "br", gzip when it does not but contains "gzip", and none
\* otherwise; a header naming both takes the brotli path.
C16_OneDecompressionPath ==
    dec.pc = "returned" =>
        LET e == LowerHeader(dec.response.encoding)
        IN  /\ dec.path \in {"brotli", "gzip", "raw"}
            /\ dec.path = "brotli" <=> Contains(e, Br)
            /\ dec.path = "gzip" <=> (~Contains(e, Br) /\ Contains(e, Gzip))
            /\ dec.path = "raw" <=> (~Contains(e, Br) /\ ~Contains(e, Gzip))
            /\ (dec.path = "raw" /\ dec.fault = "none") => dec.failed # "decompress"

C16_Witness ==
    /\ dec.pc = "returned"
    /\ dec.response.encoding = <<"G", "Z", "I", "P", ",", " ", "B", "R">>
    /\ dec.response.content = [format |-> "br", intact |-> TRUE, data |-> <<"a", "xE9">>]
    /\ dec.path = "brotli"
    /\ dec.failed = "none"

\* The characters of a text that are neither blanks nor line breaks.
RECURSIVE Letters(_)
Letters(s) ==
    IF s = << >> THEN << >>
    ELSE (IF Head(s) \in {" ", "\n", "\r"} THEN << >> ELSE <<Head(s)>>) \o Letters(Tail(s))

\* A text of non-empty lines without blanks at their ends, joined by single
\* "\n" characters.
Tidy(s) ==
    /\ \A k \in 1..Len(s) : s[k] # "\r"
    /\ s # << >> => (s[1] \notin {" ", "\n"} /\ s[Len(s)] \notin {" ", "\n"})
    /\ \A k \in 1..(Len(s) - 1) :
         /\ s[k] = "\n" => s[k + 1] \notin {" ", "\n"}
         /\ s[k + 1] = "\n" => s[k] \notin {" ", "\n"}

\* C19: normalize_output gives the non-empty stripped lines joined by single
\* newlines, applying it twice gives the same as applying it once, and two
\* outputs that differ only in trailing newlines, blank lines or blanks at
\* the ends of lines normalize to the same text and are judged Passed.
C19_NormalizeIdempotentLayoutBlind ==
    norm.pc = "returned" =>
        /\ Tidy(norm.out)
        /\ Letters(norm.out) = Letters(norm.text)
        /\ norm.twice = norm.out
        /\ norm.varOut = norm.out
        /\ norm.verdict = "Passed"

C19_Witness ==
    /\ norm.pc = "returned"
    /\ norm.text = <<"a", "\n", "b">>
    /\ norm.variant = <<"a", "\n", "\n", "b">>
    /\ norm.out = <<"a", "\n", "b">>
    /\ norm.varOut = norm.out
    /\ norm.verdict = "Passed"

\* The order in which main takes the steps of one problem.
StepOrder == <<"samples", "search", "verify">>

\* C21: for each problem main runs the sample fetch, the solution search and
\* the verification in that order; a None sample result ends the problem
\* before any search; with an empty sample list the search is made but
\* test_solution is not called and found code is reported as untested;
\* test_solution is called only with non-empty code and a non-empty list.
C21_StepsInOrder ==
    mainPc # "off" =>
        /\ Len(steps) <= 3
        /\ steps = SubSeq(StepOrder, 1, Len(steps))
        /\ (Len(steps) >= 1 /\ gpsResult.none) =>
             /\ steps = <<"samples">>
             /\ report \in {"critical_samples", "invalid", "error"}
        /\ report = "critical_samples" => (steps = <<"samples">> /\ gpsResult.none)
        /\ (Len(steps) >= 1 /\ gpsResult.items = << >>) => Len(steps) <= 2
        /\ report = "untested" =>
             /\ steps = <<"samples", "search">>
             /\ gpsResult = Some(<< >>)
             /\ Truthy(scResult)
        /\ Len(steps) = 3 =>
             /\ tested
             /\ code # EmptyText
             /\ samples # << >>
             /\ code = scResult.items
             /\ samples = gpsResult.items
        /\ tsPc # "idle" => Len(steps) = 3

C21_Witness ==
    /\ mainPc = "input"
    /\ report = "untested"
    /\ steps = <<"samples", "search">>
    /\ gpsResult = Some(<< >>)
    /\ lastBlocked.seen

====
